---- MODULE Spec2Model ----
(***************************************************************************)
(* Model of src/read/file-read.ts: the single-file asynchronous reader     *)
(* readFileAsync and the multi-file orchestrator readFilesAsync with its   *)
(* two emission strategies, together with the rxjs operators they use      *)
(* (Observable, merge, forkJoin, Subject).                                 *)
(*                                                                         *)
(* Strings that the code indexes (file paths) are sequences of             *)
(* one-character strings; all indices of the JS string helpers are 0-based *)
(* as in the source.  Paths follow the POSIX flavour of node's path module.*)
(***************************************************************************)
EXTENDS Integers, Sequences, FiniteSets, TLC

\* ------------------------------------------------------------------ bounds
MaxPaths == 3
MaxConsumers == 2

\* ------------------------------------------------------- input universes
\* "a/c.t" : a file with an extension inside a directory
PathA == <<"a", "/", "c", ".", "t">>
\* "b.d/e" : no dot in the last segment, a dot in the directory name
PathB == <<"b", ".", "d", "/", "e">>
PathPool == {PathA, PathB}

Contents == {"c1", "c2"}
\* outcome of the platform read for a path that cannot be read
ENOENT == "ENOENT"

ConsumerIds == 1..MaxConsumers

\* all sequences over S of length 0..n
RECURSIVE SeqsUpTo(_, _)
SeqsUpTo(S, n) ==
    IF n = 0 THEN {<<>>}
    ELSE LET shorter == SeqsUpTo(S, n - 1)
         IN shorter \cup {Append(s, x) : s \in {t \in shorter : Len(t) = n - 1}, x \in S}

\* ------------------------------------------------------- JS string helpers
SetMax(S) == CHOOSE x \in S : \A y \in S : y <= x

Clamp(i, n) == IF i < 0 THEN 0 ELSE IF i > n THEN n ELSE i

\* String.prototype.lastIndexOf: 0-based index of the last occurrence, or -1
lastIndexOf(s, ch) ==
    LET I == {i \in 1..Len(s) : s[i] = ch}
    IN IF I = {} THEN -1 ELSE SetMax(I) - 1

\* String.prototype.substring: arguments clamped to [0, length] and swapped
\* when start > end
substring(s, start, end) ==
    LET a == Clamp(start, Len(s))
        b == Clamp(end, Len(s))
        lo == IF a <= b THEN a ELSE b
        hi == IF a <= b THEN b ELSE a
    IN SubSeq(s, lo + 1, hi)

\* ------------------------------------------------- node path module (POSIX)
sep == "/"

\* the segments of a path between separators (empty segments included)
RECURSIVE Split(_)
Split(s) ==
    LET k == {i \in 1..Len(s) : s[i] = sep}
    IN IF k = {} THEN <<s>>
       ELSE LET j == SetMax(k)
            IN Append(Split(SubSeq(s, 1, j - 1)), SubSeq(s, j + 1, Len(s)))

RECURSIVE Join(_)
Join(segs) ==
    IF Len(segs) = 0 THEN <<>>
    ELSE IF Len(segs) = 1 THEN segs[1]
    ELSE Join(SubSeq(segs, 1, Len(segs) - 1)) \o <<sep>> \o segs[Len(segs)]

\* normalizeString of node's path: drops empty and "." segments, resolves ".."
RECURSIVE normalizeSegs(_, _)
normalizeSegs(segs, allowAboveRoot) ==
    IF Len(segs) = 0 THEN <<>>
    ELSE LET done == normalizeSegs(SubSeq(segs, 1, Len(segs) - 1), allowAboveRoot)
             last == segs[Len(segs)]
         IN IF last = <<>> \/ last = <<".">> THEN done
            ELSE IF last = <<".", ".">>
                 THEN IF Len(done) > 0 /\ done[Len(done)] # <<".", ".">>
                      THEN SubSeq(done, 1, Len(done) - 1)
                      ELSE IF allowAboveRoot THEN Append(done, last) ELSE done
            ELSE Append(done, last)

\* path.normalize
normalize(p) ==
    IF Len(p) = 0 THEN <<".">>
    ELSE LET isAbsolute == p[1] = sep
             trailingSeparator == p[Len(p)] = sep
             body == Join(normalizeSegs(Split(p), ~isAbsolute))
         IN IF Len(body) = 0
            THEN IF isAbsolute THEN <<sep>>
                 ELSE IF trailingSeparator THEN <<".", sep>> ELSE <<".">>
            ELSE (IF isAbsolute THEN <<sep>> ELSE <<>>) \o body
                 \o (IF trailingSeparator THEN <<sep>> ELSE <<>>)

\* path.dirname
dirname(p) ==
    IF Len(p) = 0 THEN <<".">>
    ELSE LET hasRoot == p[1] = sep
             \* the scan runs from the end down to index 1 (0-based), skips the
             \* trailing separators and stops at the first separator it meets
             \* after a non-separator character
             lastSlash == {i \in 2..Len(p) :
                             /\ p[i] = sep
                             /\ \E j \in (i + 1)..Len(p) : p[j] # sep}
         IN IF lastSlash = {}
            THEN IF hasRoot THEN <<sep>> ELSE <<".">>
            ELSE LET end == SetMax(lastSlash) - 1
                 IN IF hasRoot /\ end = 1 THEN <<sep, sep>> ELSE SubSeq(p, 1, end)

\* path.extname
extname(p) ==
    LET nonSep == {i \in 1..Len(p) : p[i] # sep}
    IN IF nonSep = {} THEN <<>>
       ELSE LET end == SetMax(nonSep)                       \* last char of the last segment
                before == {i \in 1..end : p[i] = sep}
                startPart == IF before = {} THEN 1 ELSE SetMax(before) + 1
                dots == {i \in startPart..end : p[i] = "."}
            IN IF dots = {} THEN <<>>
               ELSE LET startDot == SetMax(dots)
                    IN IF startDot = startPart THEN <<>>     \* ".bashrc" has no extension
                       ELSE IF /\ startDot = end
                               /\ startDot = startPart + 1
                               /\ p[startPart] = "."
                            THEN <<>>                        \* the segment ".."
                       ELSE SubSeq(p, startDot, end)

\* ------------------------------------------------------------ File records
undefined == "undefined"

getParentDirectoryFromFilePath(filePath) == dirname(filePath)

getFileNameFromPath(filePath) ==
    LET n == normalize(filePath)
    IN substring(n, lastIndexOf(n, sep) + 1, lastIndexOf(n, "."))

getFileExtnFromPath(filePath) == extname(filePath)

getFileDataFromPath(filePath) ==
    [name            |-> getFileNameFromPath(filePath),
     filePath        |-> filePath,
     fileExtn        |-> getFileExtnFromPath(filePath),
     parentDirectory |-> getParentDirectoryFromFilePath(filePath),
     content         |-> undefined]

\* ------------------------------------------------------------ notifications
NextN(v) == [kind |-> "next", value |-> v]
CompleteN == [kind |-> "complete"]
ErrorN == [kind |-> "error"]

\* ------------------------------------------------------------ read options
\* the optional `options` argument: omitted, or a bare encoding name (an
\* options object { encoding } is read by fs exactly like the bare name)
undefinedOptions == [kind |-> "undefined"]
OptionsPool == {undefinedOptions, [kind |-> "string", encoding |-> "latin1"]}

getDefaultReadOptions == [kind |-> "object", encoding |-> "utf-8"]

\* if (!options) { options = getDefaultReadOptions(); }
orDefault(o) == IF o.kind = "undefined" THEN getDefaultReadOptions ELSE o

EncodingOf(o) == o.encoding

\* the string the platform yields for bytes under an encoding; the bytes of a
\* file are named by their utf-8 reading
decode(bytes, encoding) ==
    IF encoding = "utf-8" THEN bytes
    ELSE IF bytes = "c1" THEN "c1-as-latin1" ELSE "c2-as-latin1"

\* ------------------------------------------------------------------- state
VARIABLES
    op,                \* the exported function that is called
    filePaths,         \* its path argument(s)
    emissionStrategy,  \* 'eager' | 'lazy' (readFilesAsync only)
    options,           \* its options argument
    disk,              \* what the platform read yields for each path
    pc,                \* "start" before the call, "called" after it returned
                       \* (sync: "running", then "returned" or "thrown")
    files,             \* the File objects created by getFileDataFromPath
    writes,            \* per File object: how often its content was assigned
    reads,             \* the platform reads started so far, in order
    task,              \* the fs.promises.readFile promises that were started
    finalObservable,   \* state of merge(...) / forkJoin(...)
    filesSubject,      \* state of the Subject behind the returned channel
    channel,           \* every notification filesSubject has sent so far
    consumer,          \* the caller's subscribers and what each has received
    subscribedAt,      \* per subscriber: Len(channel) when it subscribed, or -1
    returned           \* what a synchronous call returned (a sequence of Files)

vars == <<op, filePaths, emissionStrategy, options, disk, pc, files, writes, reads,
          task, finalObservable, filesSubject, channel, consumer, subscribedAt,
          returned>>

inputs == <<op, filePaths, emissionStrategy, options, disk>>

\* fs.readFileSync / fs.promises.readFile of path p under options o
fsRead(p, o) ==
    IF disk[p] = ENOENT THEN ENOENT ELSE decode(disk[p], EncodingOf(o))

\* --------------------------------------------------- readFileAsync promise
\* readFile is always given an encoding (the default is 'utf-8'), so it yields
\* a string, and String.prototype.toString returns that string unchanged
toString(fileContent) == fileContent

\* the fulfilment handler of readFile: sets the content, then next + complete
readFileOnFulfilled(file, fileContent) ==
    LET read == [file EXCEPT !.content = toString(fileContent)]
    IN [file |-> read, out |-> <<NextN(read), CompleteN>>]

\* variant: a rejection handler that hands the File on without its content
readFileOnRejected_Emits(file) ==
    [file |-> file, out |-> <<NextN(file), CompleteN>>]

\* variant: a rejection handler that calls observer.error
readFileOnRejected_Errors(file) ==
    [file |-> file, out |-> <<ErrorN>>]

\* .then() is given no rejection handler: the observer is told nothing
readFileOnRejected(file) ==
    [file |-> file, out |-> <<>>]

\* --------------------------------------------------------------- rxjs merge
\* variant: merge of no observables that never completes
mergeSubscribe_Hangs(n) ==
    [fo  |-> [stopped |-> FALSE, active |-> n,
              values |-> <<>>, hasValue |-> <<>>, completed |-> 0, emitted |-> 0],
     out |-> <<>>]

mergeSubscribe(n) ==
    [fo  |-> [stopped |-> n = 0, active |-> n,
              values |-> <<>>, hasValue |-> <<>>, completed |-> 0, emitted |-> 0],
     out |-> IF n = 0 THEN <<CompleteN>> ELSE <<>>]

\* variant: inner values are held back instead of forwarded
mergeNext_Held(fo, i, value) ==
    [fo |-> fo, out |-> <<>>]

mergeNext(fo, i, value) ==
    [fo |-> fo, out |-> <<NextN(value)>>]

\* variant: completes with the first inner observable that completes
mergeComplete_First(fo, i) ==
    [fo  |-> [fo EXCEPT !.active = fo.active - 1, !.stopped = TRUE],
     out |-> <<CompleteN>>]

mergeComplete(fo, i) ==
    LET a == fo.active - 1
    IN [fo  |-> [fo EXCEPT !.active = a, !.stopped = (a = 0)],
        out |-> IF a = 0 THEN <<CompleteN>> ELSE <<>>]

\* ------------------------------------------------------------ rxjs forkJoin
forkJoinSubscribe(n) ==
    [fo  |-> [stopped |-> n = 0, active |-> n,
              values |-> [i \in 1..n |-> undefined],
              hasValue |-> [i \in 1..n |-> FALSE],
              completed |-> 0, emitted |-> 0],
     out |-> IF n = 0 THEN <<CompleteN>> ELSE <<>>]

\* variant: every inner value is forwarded as soon as it arrives
forkJoinNext_Forwards(fo, i, value) ==
    [fo  |-> [fo EXCEPT !.values[i] = value,
                        !.hasValue[i] = TRUE,
                        !.emitted = IF fo.hasValue[i] THEN @ ELSE @ + 1],
     out |-> <<NextN(<<value>>)>>]

forkJoinNext(fo, i, value) ==
    [fo  |-> [fo EXCEPT !.values[i] = value,
                        !.hasValue[i] = TRUE,
                        !.emitted = IF fo.hasValue[i] THEN @ ELSE @ + 1],
     out |-> <<>>]

forkJoinComplete(fo, i) ==
    LET c == fo.completed + 1
        len == Len(fo.values)
        last == c = len \/ ~fo.hasValue[i]
    IN [fo  |-> [fo EXCEPT !.completed = c, !.stopped = last],
        out |-> IF last
                THEN (IF fo.emitted = len THEN <<NextN(fo.values)>> ELSE <<>>)
                     \o <<CompleteN>>
                ELSE <<>>]

\* an inner error ends merge and forkJoin alike: the error goes downstream and
\* the remaining inner subscriptions are dropped
innerError(fo, i) ==
    [fo |-> [fo EXCEPT !.stopped = TRUE], out |-> <<ErrorN>>]

\* one notification of inner observable i arrives at finalObservable
innerNotify(strategy, fo, i, n) ==
    IF fo.stopped THEN [fo |-> fo, out |-> <<>>]
    ELSE IF n.kind = "error" THEN innerError(fo, i)
    ELSE IF strategy = "eager"
         THEN IF n.kind = "next" THEN mergeNext(fo, i, n.value) ELSE mergeComplete(fo, i)
         ELSE IF n.kind = "next" THEN forkJoinNext(fo, i, n.value) ELSE forkJoinComplete(fo, i)

RECURSIVE innerFeed(_, _, _, _)
innerFeed(strategy, fo, i, ns) ==
    IF Len(ns) = 0 THEN [fo |-> fo, out |-> <<>>]
    ELSE LET r1 == innerNotify(strategy, fo, i, Head(ns))
             r2 == innerFeed(strategy, r1.fo, i, Tail(ns))
         IN [fo |-> r2.fo, out |-> r1.out \o r2.out]

\* ------------------------------------------------------------------ Subject
\* what a subscriber of the caller does with a notification
observerNotify(c, n) ==
    IF c.state # "subscribed" THEN c
    ELSE [state |-> IF n.kind = "next" THEN "subscribed" ELSE "closed",
          log   |-> Append(c.log, n)]

RECURSIVE observerFeed(_, _)
observerFeed(c, ns) ==
    IF Len(ns) = 0 THEN c ELSE observerFeed(observerNotify(c, Head(ns)), Tail(ns))

\* variant: a Subject that does not stop when it completes or errors
subjectNotify_NoStop(w, n) ==
    [filesSubject |-> w.filesSubject,
     channel  |-> Append(w.channel, n),
     consumer |-> [c \in ConsumerIds |->
                     IF c \in w.filesSubject.observers
                     THEN observerNotify(w.consumer[c], n)
                     ELSE w.consumer[c]]]

\* Subject.next / Subject.complete / Subject.error on w = the subject, the
\* record of what it sent, and its subscribers
subjectNotify(w, n) ==
    IF w.filesSubject.isStopped THEN w
    ELSE [filesSubject |->
              IF n.kind = "next" THEN w.filesSubject
              ELSE [isStopped |-> TRUE, hasError |-> n.kind = "error", observers |-> {}],
          channel  |-> Append(w.channel, n),
          consumer |-> [c \in ConsumerIds |->
                          IF c \in w.filesSubject.observers
                          THEN observerNotify(w.consumer[c], n)
                          ELSE w.consumer[c]]]

\* the three callbacks readFilesAsync passes to finalObservable.subscribe
finalNotify(w, n) ==
    IF n.kind = "error" THEN w          \* () => undefined
    ELSE subjectNotify(w, n)            \* filesSubject.next(data) / .complete()

RECURSIVE finalFeed(_, _)
finalFeed(w, ns) ==
    IF Len(ns) = 0 THEN w ELSE finalFeed(finalNotify(w, Head(ns)), Tail(ns))

\* ----------------------------------------------------------------- initial
NoObservable ==
    [stopped |-> FALSE, active |-> 0, values |-> <<>>, hasValue |-> <<>>,
     completed |-> 0, emitted |-> 0]

Init ==
    /\ op \in {"readFileSync", "readFileAsync", "readFilesSync", "readFilesAsync"}
    \* each file is unreadable or holds its own content
    /\ disk \in {d \in [PathPool -> Contents \cup {ENOENT}] :
                    d[PathA] # "c2" /\ d[PathB] # "c1"}
    /\ options \in OptionsPool
    /\ IF op \in {"readFileSync", "readFileAsync"}
       THEN filePaths \in {<<p>> : p \in PathPool}
       ELSE filePaths \in SeqsUpTo(PathPool, MaxPaths)
    /\ IF op = "readFilesAsync"
       THEN emissionStrategy \in {"eager", "lazy"}
       ELSE emissionStrategy = "none"
    /\ pc = "start"
    /\ files = <<>>
    /\ writes = <<>>
    /\ reads = <<>>
    /\ task = <<>>
    /\ finalObservable = NoObservable
    /\ filesSubject = [isStopped |-> FALSE, hasError |-> FALSE, observers |-> {}]
    /\ channel = <<>>
    /\ consumer = [c \in ConsumerIds |-> [state |-> "idle", log |-> <<>>]]
    /\ subscribedAt = [c \in ConsumerIds |-> -1]
    /\ returned = <<>>

\* subscribers are numbered in the order in which they subscribe
Arrives(c) == \A d \in 1..(c - 1) : consumer[d].state # "idle"

async == <<task, finalObservable, filesSubject, channel, consumer, subscribedAt>>

\* ------------------------------------------------------------- sync actions
\* the body of readFileSync(filePath, o): the read it makes, and the File it
\* returns unless the read throws
readFileSync(filePath, o) ==
    LET opts == orDefault(o)
        file == getFileDataFromPath(filePath)
        got  == fsRead(filePath, opts)
    IN [read   |-> [filePath |-> filePath, options |-> opts],
        throws |-> got = ENOENT,
        file   |-> IF got = ENOENT THEN file ELSE [file EXCEPT !.content = got]]

\* readFileSync(filePath, options) called by the user
CallReadFileSync ==
    /\ op = "readFileSync"
    /\ pc = "start"
    /\ LET r == readFileSync(filePaths[1], options)
       IN /\ reads' = Append(reads, r.read)
          /\ files' = <<r.file>>
          /\ writes' = <<IF r.throws THEN 0 ELSE 1>>
          /\ pc' = IF r.throws THEN "thrown" ELSE "returned"
          /\ returned' = IF r.throws THEN <<>> ELSE <<r.file>>
    /\ UNCHANGED <<inputs, async>>

\* readFilesSync(filePaths, options): defaults its options, starts with an
\* empty files array
CallReadFilesSync ==
    /\ op = "readFilesSync"
    /\ pc = "start"
    /\ pc' = "running"
    /\ UNCHANGED <<inputs, files, writes, reads, async, returned>>

\* variant: a failed read is swallowed, its File kept, and the loop goes on
ReadFilesSyncStep_Swallows ==
    /\ op = "readFilesSync"
    /\ pc = "running"
    /\ Len(files) < Len(filePaths)
    /\ LET r == readFileSync(filePaths[Len(files) + 1], undefinedOptions)
       IN /\ reads' = Append(reads, r.read)
          /\ pc' = pc
          /\ files' = Append(files, r.file)
          /\ writes' = Append(writes, IF r.throws THEN 0 ELSE 1)
    /\ UNCHANGED <<inputs, async, returned>>

\* one turn of filePaths.forEach: readFileSync(filePath) without the options,
\* then files.push(file); an exception leaves the loop and the function
ReadFilesSyncStep ==
    /\ op = "readFilesSync"
    /\ pc = "running"
    /\ Len(files) < Len(filePaths)
    /\ LET r == readFileSync(filePaths[Len(files) + 1], undefinedOptions)
       IN /\ reads' = Append(reads, r.read)
          /\ IF r.throws
             THEN /\ pc' = "thrown"
                  /\ UNCHANGED <<files, writes>>
             ELSE /\ pc' = pc
                  /\ files' = Append(files, r.file)
                  /\ writes' = Append(writes, 1)
    /\ UNCHANGED <<inputs, async, returned>>

\* return files
ReadFilesSyncReturn ==
    /\ op = "readFilesSync"
    /\ pc = "running"
    /\ Len(files) = Len(filePaths)
    /\ pc' = "returned"
    /\ returned' = files
    /\ UNCHANGED <<inputs, files, writes, reads, async>>

\* ------------------------------------------------------------ async actions
\* variant: a hot readFileAsync that starts the read when it is called
CallReadFileAsync_Hot ==
    /\ op = "readFileAsync"
    /\ pc = "start"
    /\ pc' = "called"
    /\ files' = <<getFileDataFromPath(filePaths[1])>>
    /\ writes' = <<0>>
    /\ reads' = Append(reads, [filePath |-> filePaths[1], options |-> orDefault(options)])
    /\ UNCHANGED <<inputs, async, returned>>

\* readFileAsync(filePath, options): builds the File and returns a cold
\* Observable
CallReadFileAsync ==
    /\ op = "readFileAsync"
    /\ pc = "start"
    /\ pc' = "called"
    /\ files' = <<getFileDataFromPath(filePaths[1])>>
    /\ writes' = <<0>>
    /\ UNCHANGED <<inputs, reads, async, returned>>

\* a caller subscribes to the Observable readFileAsync returned: the
\* subscribe function starts fs.promises.readFile
SubscribeFile(c) ==
    /\ op = "readFileAsync"
    /\ pc = "called"
    /\ consumer[c].state = "idle"
    /\ Arrives(c)
    /\ consumer' = [consumer EXCEPT ![c].state = "subscribed"]
    /\ subscribedAt' = [subscribedAt EXCEPT ![c] = 0]
    /\ task' = Append(task, [file |-> 1, observer |-> c, state |-> "reading",
                             options |-> orDefault(options)])
    /\ reads' = Append(reads, [filePath |-> filePaths[1], options |-> orDefault(options)])
    /\ UNCHANGED <<inputs, pc, files, writes, finalObservable, filesSubject, channel,
                   returned>>

\* readFilesAsync(filePaths, emissionStrategy, options): one readFileAsync per
\* path, merge or forkJoin of them, subscribed to at once; returns the Subject
CallReadFilesAsync ==
    /\ op = "readFilesAsync"
    /\ pc = "start"
    /\ pc' = "called"
    /\ LET n == Len(filePaths)
           opts == orDefault(options)
           sub == IF emissionStrategy = "eager" THEN mergeSubscribe(n)
                                                ELSE forkJoinSubscribe(n)
           w == finalFeed([filesSubject |-> filesSubject, channel |-> channel,
                           consumer |-> consumer], sub.out)
       IN /\ files' = [i \in 1..n |-> getFileDataFromPath(filePaths[i])]
          /\ writes' = [i \in 1..n |-> 0]
          /\ task' = [i \in 1..n |-> [file |-> i, observer |-> i, state |-> "reading",
                                      options |-> opts]]
          /\ reads' = [i \in 1..n |-> [filePath |-> filePaths[i], options |-> opts]]
          /\ finalObservable' = sub.fo
          /\ filesSubject' = w.filesSubject
          /\ channel' = w.channel
          /\ consumer' = w.consumer
    /\ UNCHANGED <<inputs, subscribedAt, returned>>

\* variant: the returned channel is the cold finalObservable, so that every
\* subscription starts the reads again
Subscribe_Rereads(c) ==
    /\ op = "readFilesAsync"
    /\ pc = "called"
    /\ consumer[c].state = "idle"
    /\ Arrives(c)
    /\ subscribedAt' = [subscribedAt EXCEPT ![c] = Len(channel)]
    /\ consumer' = [consumer EXCEPT ![c].state = "subscribed"]
    /\ filesSubject' = [filesSubject EXCEPT !.observers = @ \cup {c}]
    /\ reads' = reads \o [i \in 1..Len(filePaths) |->
                            [filePath |-> filePaths[i], options |-> orDefault(options)]]
    /\ UNCHANGED <<inputs, pc, files, writes, task, finalObservable, channel, returned>>

\* variant: a ReplaySubject, which hands a new subscriber everything sent so far
Subscribe_Replays(c) ==
    /\ op = "readFilesAsync"
    /\ pc = "called"
    /\ consumer[c].state = "idle"
    /\ Arrives(c)
    /\ subscribedAt' = [subscribedAt EXCEPT ![c] = Len(channel)]
    /\ IF filesSubject.isStopped
       THEN /\ consumer' = [consumer EXCEPT ![c] = [state |-> "closed", log |-> channel]]
            /\ UNCHANGED filesSubject
       ELSE /\ consumer' = [consumer EXCEPT ![c] = [state |-> "subscribed", log |-> channel]]
            /\ filesSubject' = [filesSubject EXCEPT !.observers = @ \cup {c}]
    /\ UNCHANGED <<inputs, pc, files, writes, reads, task, finalObservable, channel,
                   returned>>

\* a caller subscribes to filesSubject.asObservable()
Subscribe(c) ==
    /\ op = "readFilesAsync"
    /\ pc = "called"
    /\ consumer[c].state = "idle"
    /\ Arrives(c)
    /\ subscribedAt' = [subscribedAt EXCEPT ![c] = Len(channel)]
    /\ IF filesSubject.hasError
       THEN /\ consumer' = [consumer EXCEPT ![c] = [state |-> "closed", log |-> <<ErrorN>>]]
            /\ UNCHANGED filesSubject
       ELSE IF filesSubject.isStopped
       THEN /\ consumer' = [consumer EXCEPT ![c] = [state |-> "closed", log |-> <<CompleteN>>]]
            /\ UNCHANGED filesSubject
       ELSE /\ consumer' = [consumer EXCEPT ![c].state = "subscribed"]
            /\ filesSubject' = [filesSubject EXCEPT !.observers = @ \cup {c}]
    /\ UNCHANGED <<inputs, pc, files, writes, reads, task, finalObservable, channel,
                   returned>>

\* variant: unsubscribing tears the reads down
Unsubscribe_Aborts(c) ==
    /\ op \in {"readFileAsync", "readFilesAsync"}
    /\ pc = "called"
    /\ consumer[c].state = "subscribed"
    /\ consumer' = [consumer EXCEPT ![c].state = "unsubscribed"]
    /\ filesSubject' = [filesSubject EXCEPT !.observers = @ \ {c}]
    /\ task' = [t \in 1..Len(task) |->
                   IF task[t].state = "reading" THEN [task[t] EXCEPT !.state = "aborted"]
                                                ELSE task[t]]
    /\ UNCHANGED <<inputs, pc, files, writes, reads, finalObservable, channel,
                   subscribedAt, returned>>

\* a caller unsubscribes: its Subscriber is closed and leaves the Subject's
\* observers; neither Observable has a teardown that reaches the reads
Unsubscribe(c) ==
    /\ op \in {"readFileAsync", "readFilesAsync"}
    /\ pc = "called"
    /\ consumer[c].state = "subscribed"
    /\ consumer' = [consumer EXCEPT ![c].state = "unsubscribed"]
    /\ filesSubject' = [filesSubject EXCEPT !.observers = @ \ {c}]
    /\ UNCHANGED <<inputs, pc, files, writes, reads, task, finalObservable, channel,
                   subscribedAt, returned>>

\* what the observer of task t is told: a caller's subscriber (readFileAsync)
\* or the inner subscriber of merge / forkJoin (readFilesAsync)
Deliver(t, ns) ==
    IF op = "readFileAsync"
    THEN /\ consumer' = [consumer EXCEPT ![task[t].observer] = observerFeed(@, ns)]
         /\ UNCHANGED <<finalObservable, filesSubject, channel>>
    ELSE LET r == innerFeed(emissionStrategy, finalObservable, task[t].observer, ns)
             w == finalFeed([filesSubject |-> filesSubject, channel |-> channel,
                             consumer |-> consumer], r.out)
         IN /\ finalObservable' = r.fo
            /\ filesSubject' = w.filesSubject
            /\ channel' = w.channel
            /\ consumer' = w.consumer

\* the platform read of task t succeeds and the fulfilment handler runs
ReadFileFulfilled(t) ==
    /\ pc = "called"
    /\ t \in 1..Len(task)
    /\ task[t].state = "reading"
    /\ fsRead(files[task[t].file].filePath, task[t].options) # ENOENT
    /\ LET f == task[t].file
           r == readFileOnFulfilled(files[f], fsRead(files[f].filePath, task[t].options))
       IN /\ files' = [files EXCEPT ![f] = r.file]
          /\ writes' = [writes EXCEPT ![f] = @ + 1]
          /\ Deliver(t, r.out)
    /\ task' = [task EXCEPT ![t].state = "done"]
    /\ UNCHANGED <<inputs, pc, reads, subscribedAt, returned>>

\* the platform read of task t fails: the promise is rejected
ReadFileRejected(t) ==
    /\ pc = "called"
    /\ t \in 1..Len(task)
    /\ task[t].state = "reading"
    /\ fsRead(files[task[t].file].filePath, task[t].options) = ENOENT
    /\ LET f == task[t].file
           r == readFileOnRejected(files[f])
       IN /\ files' = [files EXCEPT ![f] = r.file]
          /\ Deliver(t, r.out)
    /\ task' = [task EXCEPT ![t].state = "failed"]
    /\ UNCHANGED <<inputs, pc, writes, reads, subscribedAt, returned>>

TaskIds == 1..(IF MaxPaths > MaxConsumers THEN MaxPaths ELSE MaxConsumers)

Next ==
    \/ CallReadFileSync
    \/ CallReadFilesSync
    \/ ReadFilesSyncStep
    \/ ReadFilesSyncReturn
    \/ CallReadFileAsync
    \/ \E c \in ConsumerIds : SubscribeFile(c)
    \/ CallReadFilesAsync
    \/ \E c \in ConsumerIds : Subscribe(c)
    \/ \E c \in ConsumerIds : Unsubscribe(c)
    \/ \E t \in TaskIds : ReadFileFulfilled(t)
    \/ \E t \in TaskIds : ReadFileRejected(t)

Spec == Init /\ [][Next]_vars

\* ------------------------------------------------------- shared vocabulary
Called == pc = "called"
Eager == op = "readFilesAsync" /\ emissionStrategy = "eager"
Lazy == op = "readFilesAsync" /\ emissionStrategy = "lazy"

IsNext(n) == n.kind = "next"
\* the values of a sequence of notifications, in order
ValuesOf(log) == [k \in 1..Len(SelectSeq(log, IsNext)) |-> SelectSeq(log, IsNext)[k].value]

Unreadable(p) == disk[p] = ENOENT
AllSucceed == \A i \in 1..Len(filePaths) : ~Unreadable(filePaths[i])
SomeFails == \E i \in 1..Len(filePaths) : Unreadable(filePaths[i])
AllFinished == \A t \in 1..Len(task) : task[t].state \in {"done", "failed"}
Closed == filesSubject.isStopped

\* v is the File of path p carrying what the disk holds for p
IsFileOf(v, p) == v.filePath = p /\ v.content = fsRead(p, orDefault(options))

DoneOf(p) == {t \in 1..Len(task) : task[t].state = "done" /\ files[task[t].file].filePath = p}
SentOf(p) == {k \in 1..Len(channel) : IsNext(channel[k]) /\ IsFileOf(channel[k].value, p)}

\* --------------------------------------------------------------------- C1
\* C1: readFilesAsync(paths, 'lazy') with every read succeeding: once all
\* reads have completed, in whatever order, the channel has sent exactly one
\* value, the sequence of length |paths| whose i-th File has filePath =
\* paths[i] and the content read for paths[i], followed by the completion.
C1_LazyOneBatchInInputOrder ==
    (Lazy /\ Called /\ AllSucceed /\ AllFinished) =>
        /\ Len(channel) = 2
        /\ channel[1].kind = "next"
        /\ Len(channel[1].value) = Len(filePaths)
        /\ \A i \in 1..Len(filePaths) : IsFileOf(channel[1].value[i], filePaths[i])
        /\ channel[2] = CompleteN

\* --------------------------------------------------------------------- C2
\* C2: readFilesAsync(paths, 'eager') with every read succeeding: each File
\* is sent on the channel in the very step in which its read completes (so
\* the delivery order is the completion order), the channel has sent one
\* File per completed path occurrence, each with the content of its own
\* path, and |paths| of them once all reads have completed.
C2_Sent ==
    (Eager /\ Called /\ AllSucceed) =>
        /\ \A k \in 1..Len(channel) :
              IsNext(channel[k]) => \E p \in PathPool : IsFileOf(channel[k].value, p)
        /\ \A p \in PathPool : Cardinality(SentOf(p)) = Cardinality(DoneOf(p))
        /\ AllFinished => Len(ValuesOf(channel)) = Len(filePaths)

C2_Step ==
    (Eager /\ Called /\ AllSucceed) =>
        \A t \in 1..Len(task) :
            (task[t].state = "reading" /\ task'[t].state = "done") =>
                /\ ValuesOf(channel') = Append(ValuesOf(channel), files'[task[t].file])
                /\ IsFileOf(files'[task[t].file], filePaths[t])

C2_EagerDeliversInCompletionOrder == [](C2_Sent) /\ [][C2_Step]_vars

C2_Witness ==
    /\ Eager /\ Called /\ AllSucceed /\ AllFinished
    /\ Len(filePaths) = 3
    /\ filePaths[1] = filePaths[3]
    /\ filePaths[1] # filePaths[2]
    \* the reads completed in an order that is not the input order
    /\ ValuesOf(channel)[1].filePath = filePaths[2]

\* --------------------------------------------------------------------- C3
\* C3: in eager mode the channel is closed once every launched read has
\* finished, however many of them failed.
C3_EagerClosedWhenAllFinished ==
    (Eager /\ Called /\ AllFinished) => Closed

\* --------------------------------------------------------------------- C4
\* C4: in lazy mode, once all reads have finished and one of them failed,
\* the channel has closed with an error notification.
C4_LazyFailureClosesWithError ==
    (Lazy /\ Called /\ AllFinished /\ SomeFails) =>
        /\ Closed
        /\ Len(channel) > 0
        /\ channel[Len(channel)] = ErrorN

\* --------------------------------------------------------------------- C5
\* C5: in lazy mode, when some read fails, no value (no batch, full or
\* partial) is ever sent on the channel or received by a subscriber, so the
\* content of the sibling reads that succeeded is never observable.
C5_LazyFailureNoBatch ==
    (Lazy /\ SomeFails) =>
        /\ \A k \in 1..Len(channel) : ~IsNext(channel[k])
        /\ \A c \in ConsumerIds : \A k \in 1..Len(consumer[c].log) : ~IsNext(consumer[c].log[k])

C5_Witness ==
    /\ Lazy /\ SomeFails /\ AllFinished
    /\ \E t \in 1..Len(task) : task[t].state = "failed"
    /\ \E t \in 1..Len(task) : task[t].state = "done" /\ files[task[t].file].content \in Contents
    /\ \E c \in ConsumerIds : consumer[c].state = "subscribed"

\* --------------------------------------------------------------------- C6
\* C6: readFilesAsync([], 'lazy') sends exactly one value, the empty batch,
\* and then closes the channel.
C6_LazyEmptySendsEmptyBatch ==
    (Lazy /\ Called /\ filePaths = <<>>) =>
        channel = <<NextN(<<>>), CompleteN>>

\* --------------------------------------------------------------------- C7
\* C7: readFilesAsync([], 'eager') closes the channel without sending a
\* value, and a caller who subscribes to the returned channel receives the
\* completion notification and no value.
C7_EagerEmptyCompletes ==
    (Eager /\ Called /\ filePaths = <<>>) =>
        /\ Closed
        /\ channel = <<CompleteN>>
        /\ \A c \in ConsumerIds :
              consumer[c].state # "idle" =>
                  consumer[c] = [state |-> "closed", log |-> <<CompleteN>>]

C7_Witness ==
    /\ Eager /\ Called /\ filePaths = <<>>
    /\ \E c \in ConsumerIds : consumer[c].state = "closed"

\* --------------------------------------------------------------------- C8
\* C8: in eager mode a failed read does not affect its siblings: every path
\* occurrence whose read succeeded has been sent as a File on the channel,
\* whether a sibling failed before it or after it.
C8_Sent ==
    Eager => \A p \in PathPool : Cardinality(SentOf(p)) = Cardinality(DoneOf(p))

\* a read that completes while a sibling has already failed is still sent
C8_Step ==
    (Eager /\ \E u \in 1..Len(task) : task[u].state = "failed") =>
        \A t \in 1..Len(task) :
            (task[t].state = "reading" /\ task'[t].state = "done") =>
                ValuesOf(channel') = Append(ValuesOf(channel), files'[task[t].file])

C8_EagerFailureSparesSiblings == [](C8_Sent) /\ [][C8_Step]_vars

C8_Witness ==
    /\ Eager /\ AllFinished
    /\ Len(task) = 3
    /\ task[1].state = "done" /\ task[2].state = "failed" /\ task[3].state = "failed"
    /\ Len(ValuesOf(channel)) = 1

\* --------------------------------------------------------------------- C9
\* C9: readFileAsync on a path whose read fails: the subscriber of the
\* returned Observable has received an error notification once the read
\* has failed.
C9_ReadFileAsyncFailureSurfaces ==
    op = "readFileAsync" =>
        \A t \in 1..Len(task) :
            task[t].state = "failed" =>
                \E k \in 1..Len(consumer[task[t].observer].log) :
                    consumer[task[t].observer].log[k] = ErrorN

\* -------------------------------------------------------------------- C10
\* C10: in eager mode, in every state where the channel is closed, every
\* read launched for the paths has completed (none is still in flight).
C10_EagerClosedOnlyAfterAllReads ==
    (Eager /\ Closed) =>
        /\ Len(task) = Len(filePaths)
        /\ \A t \in 1..Len(task) : task[t].state # "reading"

C10_Witness ==
    /\ Eager /\ Closed
    /\ Len(task) >= 2
    /\ \E c \in ConsumerIds : consumer[c].state = "closed" /\ Len(consumer[c].log) >= 2

\* -------------------------------------------------------------------- C11
\* C11: in lazy mode, in every state in which at least one read is still
\* unfinished, no value has been sent on the channel or received by any
\* subscriber.
C11_LazySilentUntilAllDone ==
    (Lazy /\ \E t \in 1..Len(task) : task[t].state = "reading") =>
        /\ \A k \in 1..Len(channel) : ~IsNext(channel[k])
        /\ \A c \in ConsumerIds : \A k \in 1..Len(consumer[c].log) : ~IsNext(consumer[c].log[k])

C11_Witness ==
    /\ Lazy
    /\ \E t \in 1..Len(task) : task[t].state = "reading"
    /\ \E t \in 1..Len(task) : task[t].state = "done" /\ files[task[t].file].content # undefined
    /\ \E c \in ConsumerIds : consumer[c].state = "subscribed"

\* -------------------------------------------------------------------- C12
\* C12: for readFileAsync and for readFilesAsync in both strategies, what a
\* subscriber receives (and what the channel sends) is values followed by at
\* most one terminal notification; a subscriber (the channel) is closed
\* exactly when it has received (sent) the terminal notification, and once
\* closed it receives (sends) nothing more and stays closed.
ValuesThenTerminal(log) == \A k \in 1..(Len(log) - 1) : IsNext(log[k])
EndsWithTerminal(log) == Len(log) > 0 /\ ~IsNext(log[Len(log)])

C12_Shape ==
    /\ \A c \in ConsumerIds :
          /\ ValuesThenTerminal(consumer[c].log)
          /\ consumer[c].state = "closed" <=> EndsWithTerminal(consumer[c].log)
    /\ ValuesThenTerminal(channel)
    /\ Closed <=> EndsWithTerminal(channel)

C12_Step ==
    /\ \A c \in ConsumerIds : consumer[c].state = "closed" => consumer'[c] = consumer[c]
    /\ Closed => (channel' = channel /\ filesSubject'.isStopped)

C12_ChannelProtocol == [](C12_Shape) /\ [][C12_Step]_vars

C12_Witness ==
    /\ Closed
    /\ Len(channel) >= 3
    /\ \E c \in ConsumerIds : consumer[c].state = "closed" /\ consumer[c].log = channel
    /\ \E c \in ConsumerIds : consumer[c].state = "closed" /\ consumer[c].log = <<CompleteN>>

\* -------------------------------------------------------------------- C13
\* C13: readFilesSync reads the paths one after another in input order and
\* returns their Files in input order; when the read of paths[i] fails the
\* call throws at once, no later path is read and nothing is returned.
C13_ReadFilesSyncSequentialFailFast ==
    op = "readFilesSync" =>
        /\ Len(reads) <= Len(filePaths)
        /\ \A k \in 1..Len(reads) : reads[k].filePath = filePaths[k]
        /\ \A k \in 1..Len(reads) :
              Unreadable(filePaths[k]) => (k = Len(reads) /\ pc = "thrown")
        /\ pc = "thrown" => (returned = <<>> /\ Unreadable(filePaths[Len(reads)]))
        /\ pc = "returned" =>
              /\ AllSucceed
              /\ Len(reads) = Len(filePaths)
              /\ Len(returned) = Len(filePaths)
              /\ \A i \in 1..Len(filePaths) :
                    /\ returned[i].filePath = filePaths[i]
                    /\ returned[i].content = fsRead(filePaths[i], reads[i].options)

C13_Witness ==
    /\ op = "readFilesSync"
    /\ pc = "thrown"
    /\ Len(filePaths) = 3
    /\ Len(reads) = 2

\* -------------------------------------------------------------------- C14
\* C14: readFileAsync is cold: calling it starts no read; a read of the path
\* is started once per subscription to the returned Observable, and only then.
C14_ReadFileAsyncIsCold ==
    op = "readFileAsync" =>
        /\ Len(reads) = Cardinality({c \in ConsumerIds : consumer[c].state # "idle"})
        /\ \A k \in 1..Len(reads) : reads[k].filePath = filePaths[1]

C14_Witness ==
    /\ op = "readFileAsync"
    /\ pc = "called"
    /\ Len(reads) = 1
    /\ \E c \in ConsumerIds : consumer[c].state = "idle"

\* -------------------------------------------------------------------- C15
\* C15: the content of every File record is assigned at most once, whatever
\* is done with the returned Observable (subscribing twice included).
C15_ContentWrittenOnce ==
    \A f \in 1..Len(writes) : writes[f] <= 1

\* -------------------------------------------------------------------- C16
\* C16: no implicit cancellation in readFilesAsync: a subscriber leaving the
\* channel changes nothing about the reads, and every read that is in flight
\* can still complete or fail.
C16_InFlight ==
    op = "readFilesAsync" =>
        \A t \in 1..Len(task) :
            /\ task[t].state \in {"reading", "done", "failed"}
            \* what ReadFileFulfilled(t) or ReadFileRejected(t) wait for
            /\ task[t].state = "reading" => pc = "called"

C16_Step ==
    (op = "readFilesAsync"
       /\ \E c \in ConsumerIds :
             consumer[c].state = "subscribed" /\ consumer'[c].state = "unsubscribed") =>
        /\ task' = task
        /\ reads' = reads
        /\ finalObservable' = finalObservable
        /\ pc' = pc

C16_NoImplicitCancellation == [](C16_InFlight) /\ [][C16_Step]_vars

\* a subscriber that came first, took one value and left; all three reads
\* completed nevertheless
C16_Witness ==
    /\ Eager
    /\ Len(task) = 3
    /\ \A t \in 1..3 : task[t].state = "done"
    /\ \E c \in ConsumerIds :
          /\ consumer[c].state = "unsubscribed"
          /\ subscribedAt[c] = 0
          /\ Len(consumer[c].log) = 1
    /\ Len(ValuesOf(channel)) = 3

\* -------------------------------------------------------------------- C17
\* C17: readFilesSync(paths, options) makes every read with the options of
\* the caller (encoding 'utf-8' only when options is omitted).
C17_ReadFilesSyncUsesOptions ==
    op = "readFilesSync" =>
        \A k \in 1..Len(reads) :
            EncodingOf(reads[k].options) = EncodingOf(orDefault(options))

\* -------------------------------------------------------------------- C18
\* C18: the name of a File is the part of its path after the last separator
\* and before the last dot; when the final segment of the path holds no dot
\* the name is the whole final segment.
FinalSegment(p) == Split(p)[Len(Split(p))]
HasDot(seg) == \E k \in 1..Len(seg) : seg[k] = "."

C18_FileNameOfPath ==
    \A f \in 1..Len(files) :
        LET seg == FinalSegment(files[f].filePath)
        IN files[f].name = IF HasDot(seg) THEN SubSeq(seg, 1, lastIndexOf(seg, "."))
                                          ELSE seg

\* -------------------------------------------------------------------- C19
\* C19: readFilesAsync starts the read of every path occurrence exactly once,
\* inside the call; however many subscribers the channel has had, and
\* whenever they came, no further read is started.
C19_ReadsStartedOnceAtCall ==
    op = "readFilesAsync" =>
        /\ pc = "start" => reads = <<>>
        /\ pc = "called" =>
              /\ Len(reads) = Len(filePaths)
              /\ \A i \in 1..Len(filePaths) : reads[i].filePath = filePaths[i]

C19_Witness ==
    /\ op = "readFilesAsync"
    /\ AllFinished
    /\ Len(filePaths) = 2
    /\ \A c \in ConsumerIds : consumer[c].state # "idle"
    /\ \E c, d \in ConsumerIds : subscribedAt[c] # subscribedAt[d]

\* -------------------------------------------------------------------- C20
\* C20: the channel of readFilesAsync does not replay: a subscriber has
\* received exactly what the channel sent after it subscribed (a prefix of
\* that if it left), and one that subscribed after the channel closed has
\* received the completion only.
IsPrefix(a, b) == Len(a) <= Len(b) /\ a = SubSeq(b, 1, Len(a))
SentSince(c) == SubSeq(channel, subscribedAt[c] + 1, Len(channel))
CameAfterClose(c) == subscribedAt[c] >= 1 /\ ~IsNext(channel[subscribedAt[c]])

C20_NoReplay ==
    op = "readFilesAsync" =>
        \A c \in ConsumerIds :
            consumer[c].state # "idle" =>
                IF CameAfterClose(c) THEN consumer[c].log = <<CompleteN>>
                ELSE IF consumer[c].state = "unsubscribed"
                     THEN IsPrefix(consumer[c].log, SentSince(c))
                     ELSE consumer[c].log = SentSince(c)

\* a subscriber that missed the first value, then received a later one and
\* the completion
C20_Witness ==
    /\ Eager
    /\ \E c \in ConsumerIds :
          /\ subscribedAt[c] >= 1
          /\ IsNext(channel[subscribedAt[c]])
          /\ consumer[c].state = "closed"
          /\ Len(consumer[c].log) >= 2

====
